---- MODULE Spec2Model ----
(***************************************************************************)
(* A model of ssx.py: one run of main over an Endnote XML dump.  Text is a *)
(* sequence of one-character strings; an XML element is a record that     *)
(* says whether it has text (Element.text is not None) and what it is; a   *)
(* record element is the function from each path the program queries to    *)
(* the elements matching it in document order.                             *)
(***************************************************************************)
EXTENDS Integers, Sequences, FiniteSets, TLC

\* ------------------------------------------------------------- bounds
\* most record elements in a multi-record document
MaxRecs == 2
\* most author/style elements in a record
MaxAuthors == 2
\* most elements matching one single-valued path in a record
MaxNodes == 2
\* longest generated text of a leaf
MaxTextLen == 2

\* ---------------------------------------------------------- constants
FIELD_SEPARATOR == ";"
EXIT_CODE == 20

\* csv "excel" dialect, the default of csv.DictWriter and csv.reader
DELIMITER == ","
QUOTECHAR == "\""
CR == "\r"
LF == "\n"
LINETERMINATOR == <<CR, LF>>
\* the end-of-line signal csv.reader processes after each line it is given
EOL == "EOL"

\* ------------------------------------------------------------- paths
P_AUTHORS == "./contributors/authors/author/style"
P_YEAR == "./dates/year/style"
P_JOURNAL == "./titles/secondary-title/style"
P_TITLE == "./titles/title/style"
P_VOLUME == "./volume/style"
P_NUMBER == "./number/style"
P_PAGES == "./pages/style"
P_LABEL == "./label/style"
P_WORKTYPE == "./work-type/style"

SinglePaths == {P_YEAR, P_JOURNAL, P_TITLE, P_VOLUME, P_NUMBER, P_PAGES, P_LABEL, P_WORKTYPE}
Paths == SinglePaths \cup {P_AUTHORS}

\* ---------------------------------------------------------- elements
Elem(t) == [hasText |-> TRUE, text |-> t]
NoText == [hasText |-> FALSE, text |-> <<>>]

\* ------------------------------------------------------ pure functions
RECURSIVE Join(_, _)
\* sep.join(texts)
Join(texts, sep) ==
    IF texts = <<>> THEN <<>>
    ELSE IF Len(texts) = 1 THEN texts[1]
    ELSE texts[1] \o sep \o Join(Tail(texts), sep)

\* [auth.text for auth in rec.findall(P_AUTHORS)]
AuthTexts(rec) == [i \in 1..Len(rec[P_AUTHORS]) |-> rec[P_AUTHORS][i].text]

\* str.join raises TypeError when an item of the list is None
JoinRaises(rec) == \E i \in 1..Len(rec[P_AUTHORS]) : ~rec[P_AUTHORS][i].hasText

\* the join made with the module's separator character alone
AuthorsSepBare == <<FIELD_SEPARATOR>>

AuthorsSep == <<";", " ">>

AuthorsValue(rec) == Join(AuthTexts(rec), AuthorsSep)

\* the text of the last matching element instead of the first
FieldTextLast(rec, path) ==
    IF rec[path] # <<>> /\ rec[path][Len(rec[path])].hasText THEN rec[path][Len(rec[path])].text ELSE <<>>

\* x = rec.find(path); x.text if ((x is not None) and (x.text is not None)) else ''
FieldText(rec, path) ==
    IF rec[path] # <<>> /\ Head(rec[path]).hasText THEN Head(rec[path]).text ELSE <<>>

\* "{}:{}:{}".format(volume, number, pages)
VolRef(volume, number, pages) == volume \o <<":">> \o number \o <<":">> \o pages

\* the reference dropped whenever the volume itself is empty
VolumeValueNeedsVolume(rec) ==
    IF FieldText(rec, P_VOLUME) # <<>>
    THEN VolRef(FieldText(rec, P_VOLUME), FieldText(rec, P_NUMBER), FieldText(rec, P_PAGES))
    ELSE <<>>

VolumeValue(rec) ==
    LET vol_ref == VolRef(FieldText(rec, P_VOLUME), FieldText(rec, P_NUMBER), FieldText(rec, P_PAGES))
    IN IF vol_ref # <<":", ":">> THEN vol_ref ELSE <<>>

\* the dict built by one iteration of the loop over the records
Line(rec) ==
    [Authors |-> AuthorsValue(rec),
     PubDate |-> FieldText(rec, P_YEAR),
     Journal |-> FieldText(rec, P_JOURNAL),
     Title |-> FieldText(rec, P_TITLE),
     Volume |-> VolumeValue(rec),
     Label |-> FieldText(rec, P_LABEL),
     WorkType |-> FieldText(rec, P_WORKTYPE)]

\* ---------------------------------------------------------- csv writer
\* the field names in the order the rows are built in
fieldsBuildOrder == <<"Authors", "PubDate", "Journal", "Title", "Volume", "Label", "WorkType">>

fields == <<"Authors", "PubDate", "Title", "Journal", "Volume", "Label", "WorkType">>

\* the characters of each column name
NameChars ==
    [Authors |-> <<"A", "u", "t", "h", "o", "r", "s">>,
     PubDate |-> <<"P", "u", "b", "D", "a", "t", "e">>,
     Title |-> <<"T", "i", "t", "l", "e">>,
     Journal |-> <<"J", "o", "u", "r", "n", "a", "l">>,
     Volume |-> <<"V", "o", "l", "u", "m", "e">>,
     Label |-> <<"L", "a", "b", "e", "l">>,
     WorkType |-> <<"W", "o", "r", "k", "T", "y", "p", "e">>]

\* DictWriter.writeheader: the row of the field names
HeaderRow == [j \in 1..Len(fields) |-> NameChars[fields[j]]]

\* the values in the order the keys were inserted, whatever the field names
DictToListInsertionOrder(line) ==
    <<line.Authors, line.PubDate, line.Journal, line.Title, line.Volume, line.Label, line.WorkType>>

\* DictWriter._dict_to_list: the values in fieldnames order, restval '' for a missing key
DictToList(line) ==
    [j \in 1..Len(fields) |-> IF fields[j] \in DOMAIN line THEN line[fields[j]] ELSE <<>>]

\* DictWriter (extrasaction='raise') raises ValueError on a key that is no field name
ExtraKeys(line) == \E k \in DOMAIN line : \A j \in 1..Len(fields) : fields[j] # k

\* QUOTE_MINIMAL: a field is quoted when it holds the delimiter, the quote
\* character or a character of the line terminator
NeedsQuote(t) == \E i \in 1..Len(t) : t[i] \in {DELIMITER, QUOTECHAR, CR, LF}

\* an embedded quote character written once
DoubleQuotesNot(t) == t

RECURSIVE DoubleQuotes(_)
\* doublequote=True: an embedded quote character is written twice
DoubleQuotes(t) ==
    IF t = <<>> THEN <<>>
    ELSE (IF Head(t) = QUOTECHAR THEN <<QUOTECHAR, QUOTECHAR>> ELSE <<Head(t)>>) \o DoubleQuotes(Tail(t))

QuoteField(t) ==
    IF NeedsQuote(t) THEN <<QUOTECHAR>> \o DoubleQuotes(t) \o <<QUOTECHAR>> ELSE t

\* writer.writerow: the fields joined by the delimiter, then the line terminator
\* (a row of one empty field is written quoted)
RowText(cells) ==
    IF Len(cells) = 1 /\ cells[1] = <<>> THEN <<QUOTECHAR, QUOTECHAR>> \o LINETERMINATOR
    ELSE Join([j \in 1..Len(cells) |-> QuoteField(cells[j])], <<DELIMITER>>) \o LINETERMINATOR

RECURSIVE RowsText(_)
\* writer.writerows, stopping at the first row DictWriter refuses
RowsText(ls) ==
    IF ls = <<>> \/ ExtraKeys(Head(ls)) THEN <<>>
    ELSE RowText(DictToList(Head(ls))) \o RowsText(Tail(ls))

\* the text save_to_CSV leaves in the file
CsvText(ls) == RowText(HeaderRow) \o RowsText(ls)

\* ---------------------------------------------------------- csv reader
\* csv.reader over the file opened with newline='': the lines of the text end at
\* LF, at CR LF, or at a CR that no LF follows, and keep their ending; the reader
\* processes each character of a line and then the EOL signal.
\* whether the line holding c[i] ends at position i
LineEnds(c, i) ==
    \/ c[i] = LF
    \/ c[i] = CR /\ ~(i < Len(c) /\ c[i + 1] = LF)
    \/ i = Len(c)

ReaderStart == [st |-> "START_RECORD", field |-> <<>>, row |-> <<>>, rows |-> <<>>, err |-> FALSE]

\* parse_save_field
SaveField(s, st) == [s EXCEPT !.row = Append(s.row, s.field), !.field = <<>>, !.st = st]

\* parse_add_char
AddChar(s, c, st) == [s EXCEPT !.field = Append(s.field, c), !.st = st]

AfterNewline(c) == IF c = EOL THEN "START_RECORD" ELSE "EAT_CRNL"

StartField(s, c) ==
    IF c \in {LF, CR, EOL} THEN SaveField(s, AfterNewline(c))
    ELSE IF c = QUOTECHAR THEN [s EXCEPT !.st = "IN_QUOTED_FIELD"]
    ELSE IF c = DELIMITER THEN SaveField(s, "START_FIELD")
    ELSE AddChar(s, c, "IN_FIELD")

\* parse_process_char, for the excel dialect (doublequote, no escapechar, not strict)
ProcessChar(s, c) ==
    CASE s.st = "START_RECORD" ->
            IF c = EOL THEN s
            ELSE IF c \in {LF, CR} THEN [s EXCEPT !.st = "EAT_CRNL"]
            ELSE StartField(s, c)
      [] s.st = "START_FIELD" -> StartField(s, c)
      [] s.st = "IN_FIELD" ->
            IF c \in {LF, CR, EOL} THEN SaveField(s, AfterNewline(c))
            ELSE IF c = DELIMITER THEN SaveField(s, "START_FIELD")
            ELSE AddChar(s, c, "IN_FIELD")
      [] s.st = "IN_QUOTED_FIELD" ->
            IF c = EOL THEN s
            ELSE IF c = QUOTECHAR THEN [s EXCEPT !.st = "QUOTE_IN_QUOTED_FIELD"]
            ELSE AddChar(s, c, "IN_QUOTED_FIELD")
      [] s.st = "QUOTE_IN_QUOTED_FIELD" ->
            IF c = QUOTECHAR THEN AddChar(s, c, "IN_QUOTED_FIELD")
            ELSE IF c = DELIMITER THEN SaveField(s, "START_FIELD")
            ELSE IF c \in {LF, CR, EOL} THEN SaveField(s, AfterNewline(c))
            ELSE AddChar(s, c, "IN_FIELD")
      [] s.st = "EAT_CRNL" ->
            IF c \in {LF, CR} THEN s
            ELSE IF c = EOL THEN [s EXCEPT !.st = "START_RECORD"]
            ELSE [s EXCEPT !.err = TRUE]

\* Reader.__next__ returns the row once a line ends with the parser back at START_RECORD
EmitRow(s, c) ==
    IF c = EOL /\ s.st = "START_RECORD"
    THEN [s EXCEPT !.rows = Append(s.rows, s.row), !.row = <<>>, !.field = <<>>]
    ELSE s

\* at the end of the input an unfinished field or quoted field still ends the row
Finish(s) ==
    IF s.st # "START_RECORD" /\ (s.field # <<>> \/ s.st = "IN_QUOTED_FIELD")
    THEN Append(s.rows, Append(s.row, s.field))
    ELSE s.rows

\* one character of the text, and the EOL signal when its line ends there
ReadChar(c, i, s) ==
    LET s1 == EmitRow(ProcessChar(s, c[i]), c[i])
    IN IF LineEnds(c, i) THEN EmitRow(ProcessChar(s1, EOL), EOL) ELSE s1

RECURSIVE ReaderRun(_, _, _)
ReaderRun(c, i, s) ==
    IF i > Len(c) \/ s.err THEN Finish(s)
    ELSE ReaderRun(c, i + 1, ReadChar(c, i, s))

\* list(csv.reader(f)) for the file text c
CsvReader(c) == ReaderRun(c, 1, ReaderStart)

\* ------------------------------------------------------ input documents
SeqsUpTo(S, n) == UNION {[1..k -> S] : k \in 0..n}
Strings(C, n) == UNION {[1..k -> C] : k \in 1..n}
NodeLists(n, T) == SeqsUpTo({NoText} \cup {Elem(t) : t \in T}, n)
Opt(T) == {<<>>} \cup {<<Elem(t)>> : t \in T}

SampleText(p) ==
    CASE p = P_AUTHORS -> <<"A">>
      [] p = P_YEAR -> <<"y">>
      [] p = P_JOURNAL -> <<"j">>
      [] p = P_TITLE -> <<"t">>
      [] p = P_VOLUME -> <<"3">>
      [] p = P_NUMBER -> <<"2">>
      [] p = P_PAGES -> <<"9">>
      [] p = P_LABEL -> <<"l">>
      [] p = P_WORKTYPE -> <<"w">>

IndexChar == <<"1", "2", "3", "4">>

AuthorSamples == {<<"A">>, <<"H", ",", "T">>}
VolChars == {"3", ":"}
CsvChars == {"a", DELIMITER, QUOTECHAR, LF, CR}
CsvFew == {<<QUOTECHAR>>, <<LF>>, <<DELIMITER>>}

\* a record with no sub-element, and one with every single-valued leaf present
BaseRec == [p \in Paths |-> <<>>]
FullRec == [p \in Paths |-> IF p = P_AUTHORS THEN <<>> ELSE <<Elem(SampleText(p))>>]

\* the elements matching path p, the i-th with text when s[i]
Shape(s, p) ==
    [i \in 1..Len(s) |-> IF s[i] THEN Elem(SampleText(p) \o <<IndexChar[i]>>) ELSE NoText]
Shapes == SeqsUpTo(BOOLEAN, MaxNodes)

FlowRecords ==
    {[b EXCEPT ![P_AUTHORS] = a] : b \in {BaseRec, FullRec}, a \in NodeLists(1, AuthorSamples)}

AuthorRecords ==
    {[b EXCEPT ![P_AUTHORS] = a] : b \in {BaseRec, FullRec}, a \in NodeLists(MaxAuthors, AuthorSamples)}

FieldRecords ==
    {[p \in Paths |-> IF p = P_AUTHORS THEN <<Elem(SampleText(p))>>
                      ELSE IF p = q THEN Shape(s, p) ELSE Shape(s2, p)] :
        q \in SinglePaths, s \in Shapes, s2 \in Shapes}

VolNodes == {<<>>, <<NoText>>} \cup {<<Elem(t)>> : t \in Strings(VolChars, MaxTextLen)}

VolumeRecords ==
    {[BaseRec EXCEPT ![P_VOLUME] = v, ![P_NUMBER] = n, ![P_PAGES] = g] :
        v \in VolNodes, n \in VolNodes, g \in VolNodes}

CsvRec(a, w) == [BaseRec EXCEPT ![P_AUTHORS] = a, ![P_WORKTYPE] = w]

CsvRecords ==
    {CsvRec(a, w) : a \in Opt(Strings(CsvChars, MaxTextLen)), w \in Opt(Strings(CsvChars, 1))}
    \cup {CsvRec(a, w) : a \in Opt(Strings(CsvChars, 1)), w \in Opt(Strings(CsvChars, MaxTextLen))}

CsvFlowRecords == {CsvRec(a, w) : a \in Opt(CsvFew), w \in Opt(CsvFew)}

Docs ==
    SeqsUpTo(FlowRecords, MaxRecs) \cup SeqsUpTo(CsvFlowRecords, MaxRecs)
    \cup {<<r>> : r \in AuthorRecords \cup FieldRecords \cup VolumeRecords \cup CsvRecords}

\* what the input path names: nothing (an empty path), no file, a file that cannot
\* be read, a file that is not well-formed XML, or a well-formed document
Inputs ==
    {[nonempty |-> FALSE, isfile |-> FALSE, readable |-> FALSE, wellformed |-> FALSE, doc |-> <<>>],
     [nonempty |-> TRUE, isfile |-> FALSE, readable |-> FALSE, wellformed |-> FALSE, doc |-> <<>>],
     [nonempty |-> TRUE, isfile |-> TRUE, readable |-> FALSE, wellformed |-> FALSE, doc |-> <<>>],
     [nonempty |-> TRUE, isfile |-> TRUE, readable |-> TRUE, wellformed |-> FALSE, doc |-> <<>>]}
    \cup {[nonempty |-> TRUE, isfile |-> TRUE, readable |-> TRUE, wellformed |-> TRUE, doc |-> d] : d \in Docs}

\* the output path before the run: no file, or a file left by an earlier run
NoFile == [exists |-> FALSE, content |-> <<>>]
OldFile == [exists |-> TRUE, content |-> <<"o", "l", "d", CR, LF>>]

\* -------------------------------------------------------------- state
VARIABLES
    pc,          \* the statement of main about to run, or how the run ended
    input_file,  \* what the input path names
    out_prior,   \* the output path as it was before the run
    out_file,    \* the output path now
    root,        \* the record elements of the parsed document
    idx,         \* the position of the loop over the records
    lines,       \* the rows built so far
    exit_code,   \* the process's exit status once it has ended
    exc          \* the exception that ended the run, "" when none

vars == <<pc, input_file, out_prior, out_file, root, idx, lines, exit_code, exc>>

Init ==
    /\ pc = "check_input_file"
    /\ input_file \in Inputs
    /\ out_prior \in {NoFile, OldFile}
    /\ out_file = out_prior
    /\ root = <<>>
    /\ idx = 1
    /\ lines = <<>>
    /\ exit_code = 0
    /\ exc = ""

\* the check without the permission test
readable_file_path_exists(apath) == apath.nonempty /\ apath.isfile

\* apath and os.path.isfile(apath) and os.access(apath, os.R_OK)
readable_file_path(apath) == apath.nonempty /\ apath.isfile /\ apath.readable

\* an exception no handler catches ends the process with status 1
Raise(e) == pc' = "raised" /\ exc' = e /\ exit_code' = 1

\* check_input_file(input_file, PROG_NAME): sys.exit(20) unless the path is readable
check_input_file ==
    /\ pc = "check_input_file"
    /\ IF ~readable_file_path(input_file)
       THEN pc' = "exit" /\ exit_code' = EXIT_CODE
       ELSE pc' = "read_xml" /\ exit_code' = exit_code
    /\ UNCHANGED <<input_file, out_prior, out_file, root, idx, lines, exc>>

\* a parse that swallows the parse error and goes on with an empty tree
read_xml_lenient ==
    /\ pc = "read_xml"
    /\ root' = input_file.doc
    /\ pc' = IF input_file.doc = <<>> THEN "save_to_CSV" ELSE "for_rec"
    /\ UNCHANGED <<input_file, out_prior, out_file, idx, lines, exc, exit_code>>

\* root = read_xml(input_file): xmlet.parse opens and parses the file
read_xml ==
    /\ pc = "read_xml"
    /\ IF ~(input_file.nonempty /\ input_file.isfile /\ input_file.readable)
       THEN Raise("OSError") /\ root' = root
       ELSE IF ~input_file.wellformed
       THEN Raise("ParseError") /\ root' = root
       ELSE /\ root' = input_file.doc
            /\ pc' = IF input_file.doc = <<>> THEN "save_to_CSV" ELSE "for_rec"
            /\ UNCHANGED <<exc, exit_code>>
    /\ UNCHANGED <<input_file, out_prior, out_file, idx, lines>>

\* one iteration of: for rec in root.findall('./records/record')
for_rec ==
    /\ pc = "for_rec"
    /\ idx <= Len(root)
    /\ IF JoinRaises(root[idx])
       THEN Raise("TypeError") /\ UNCHANGED <<idx, lines>>
       ELSE /\ lines' = Append(lines, Line(root[idx]))
            /\ idx' = idx + 1
            /\ pc' = IF idx = Len(root) THEN "save_to_CSV" ELSE "for_rec"
            /\ UNCHANGED <<exc, exit_code>>
    /\ UNCHANGED <<input_file, out_prior, out_file, root>>

\* save_to_CSV(lines, output_file): open(filename, 'w') truncates, then the header
\* and the rows are written
save_to_CSV ==
    /\ pc = "save_to_CSV"
    /\ out_file' = [exists |-> TRUE, content |-> CsvText(lines)]
    /\ IF \E i \in 1..Len(lines) : ExtraKeys(lines[i])
       THEN Raise("ValueError")
       ELSE pc' = "done" /\ UNCHANGED <<exc, exit_code>>
    /\ UNCHANGED <<input_file, out_prior, root, idx, lines>>

Next == check_input_file \/ read_xml \/ for_rec \/ save_to_CSV

Spec == Init /\ [][Next]_vars

\* ============================================================== claims
Terminated == pc \in {"done", "exit", "raised"}

ColumnNames == {"Authors", "PubDate", "Title", "Journal", "Volume", "Label", "WorkType"}

\* the seven values of a row in the column order of the written table
ValuesOf(line) ==
    <<line.Authors, line.PubDate, line.Title, line.Journal, line.Volume, line.Label, line.WorkType>>

\* Authors,PubDate,Title,Journal,Volume,Label,WorkType
HeaderLiteral ==
    <<"A", "u", "t", "h", "o", "r", "s", ",", "P", "u", "b", "D", "a", "t", "e", ",",
      "T", "i", "t", "l", "e", ",", "J", "o", "u", "r", "n", "a", "l", ",",
      "V", "o", "l", "u", "m", "e", ",", "L", "a", "b", "e", "l", ",",
      "W", "o", "r", "k", "T", "y", "p", "e">>

HeaderCells ==
    << <<"A", "u", "t", "h", "o", "r", "s">>, <<"P", "u", "b", "D", "a", "t", "e">>,
       <<"T", "i", "t", "l", "e">>, <<"J", "o", "u", "r", "n", "a", "l">>,
       <<"V", "o", "l", "u", "m", "e">>, <<"L", "a", "b", "e", "l">>,
       <<"W", "o", "r", "k", "T", "y", "p", "e">> >>

\* the header cells in the order of the data-model table: Journal before Title
TableOrderCells ==
    << HeaderCells[1], HeaderCells[2], HeaderCells[4], HeaderCells[3],
       HeaderCells[5], HeaderCells[6], HeaderCells[7] >>

\* the text of the first element of nodes when it exists and has non-empty text
FirstText(nodes) ==
    IF nodes # <<>> /\ nodes[1].hasText /\ nodes[1].text # <<>> THEN nodes[1].text ELSE <<>>

\* C1: for every well-formed document the run ends having written the header and
\* exactly one data row per record, the i-th row built from the i-th record.
C1_RowPerRecord ==
    (input_file.wellformed /\ Terminated) =>
        /\ pc = "done"
        /\ out_file.exists
        /\ LET rows == CsvReader(out_file.content)
           IN /\ Len(rows) = 1 + Len(input_file.doc)
              /\ \A i \in 1..Len(input_file.doc) : rows[i + 1] = ValuesOf(Line(input_file.doc[i]))

RECURSIVE BodyText(_)
BodyText(ls) == IF ls = <<>> THEN <<>> ELSE RowText(ValuesOf(Head(ls))) \o BodyText(Tail(ls))

\* C2: the header written is exactly Authors,PubDate,Title,Journal,Volume,Label,WorkType,
\* every row built has exactly these seven keys, and the file holds each row's values
\* in that column order.
C2_HeaderAndKeys ==
    /\ \A i \in 1..Len(lines) : DOMAIN lines[i] = ColumnNames
    /\ pc = "done" => out_file.content = HeaderLiteral \o <<CR, LF>> \o BodyText(lines)

\* C2 witness: a written table with a row whose record had a title but no journal
C2_Witness ==
    /\ pc = "done"
    /\ \E i \in 1..Len(lines) :
          /\ lines[i].Title # <<>> /\ lines[i].Journal = <<>>
          /\ root[i][P_JOURNAL] = <<>>

\* C3 as stated: the header read back names the columns in the order of the data-model
\* table, Journal before Title.
C3_TableOrder == pc = "done" => CsvReader(out_file.content)[1] = TableOrderCells

\* C3 amended: the header read back names Title in the third column and Journal in the
\* fourth (Authors, PubDate, Title, Journal, Volume, Label, WorkType), and each data
\* row holds its record's value of the column its header names.
C3_WrittenOrder ==
    pc = "done" =>
        LET rows == CsvReader(out_file.content)
        IN /\ \A j \in 1..7 : rows[1][j] = HeaderCells[j]
           /\ \A i \in 1..Len(lines) :
                 /\ rows[i + 1][1] = lines[i].Authors
                 /\ rows[i + 1][2] = lines[i].PubDate
                 /\ rows[i + 1][3] = lines[i].Title
                 /\ rows[i + 1][4] = lines[i].Journal
                 /\ rows[i + 1][5] = lines[i].Volume
                 /\ rows[i + 1][6] = lines[i].Label
                 /\ rows[i + 1][7] = lines[i].WorkType

\* C3 witness: a written table with a row whose title and journal differ
C3_Witness ==
    /\ pc = "done"
    /\ \E i \in 1..Len(lines) :
          lines[i].Title # <<>> /\ lines[i].Journal # <<>> /\ lines[i].Title # lines[i].Journal

\* C4: extraction of a record never raises: a well-formed document never ends the run
\* with an exception, also when an author's style element has no text.
C4_ExtractionNeverRaises == input_file.wellformed => (exc = "" /\ pc # "raised")

RECURSIVE SumLen(_, _)
SumLen(nodes, k) == IF k = 0 THEN 0 ELSE Len(nodes[k].text) + SumLen(nodes, k - 1)

\* value holds the texts of all the nodes, in order, each two separated by "; "
JoinedAsClaimed(nodes, value) ==
    LET n == Len(nodes)
        Off(k) == SumLen(nodes, k - 1) + 2 * (k - 1)
    IN /\ Len(value) = IF n = 0 THEN 0 ELSE SumLen(nodes, n) + 2 * (n - 1)
       /\ \A k \in 1..n :
             /\ SubSeq(value, Off(k) + 1, Off(k) + Len(nodes[k].text)) = nodes[k].text
             /\ k < n => /\ value[Off(k) + Len(nodes[k].text) + 1] = ";"
                         /\ value[Off(k) + Len(nodes[k].text) + 2] = " "

\* C5: for a record whose author style elements all carry text, Authors is the texts of
\* all of them in document order joined by "; ": none gives "", one gives its text.
C5_AuthorsJoin ==
    \A i \in 1..Len(lines) :
        (\A k \in 1..Len(root[i][P_AUTHORS]) : root[i][P_AUTHORS][k].hasText)
            => JoinedAsClaimed(root[i][P_AUTHORS], lines[i].Authors)

\* C5 witness: a row built from a record with two authors of different texts
C5_Witness ==
    \E i \in 1..Len(lines) :
        /\ Len(root[i][P_AUTHORS]) >= 2
        /\ root[i][P_AUTHORS][1].text # root[i][P_AUTHORS][2].text

\* C6: Volume is "" exactly when volume, number and pages are all empty, and is
\* volume:number:pages otherwise.
C6_VolumeCollapse ==
    \A i \in 1..Len(lines) :
        LET v == FirstText(root[i][P_VOLUME])
            n == FirstText(root[i][P_NUMBER])
            g == FirstText(root[i][P_PAGES])
        IN /\ lines[i].Volume = <<>> <=> (v = <<>> /\ n = <<>> /\ g = <<>>)
           /\ lines[i].Volume # <<>> => lines[i].Volume = v \o <<":">> \o n \o <<":">> \o g

\* C6 witness: a row whose record has a volume and neither number nor pages
C6_Witness ==
    \E i \in 1..Len(lines) :
        /\ lines[i].Volume = <<"3", ":", ":">>
        /\ root[i][P_NUMBER] = <<>> /\ root[i][P_PAGES] = <<>>

\* C7: when the input path names no existing readable file the run ends in
\* check_input_file with exit code 20: read_xml is never reached, no row is built and
\* the output path is left as it was.
C7_UnreadableInputExits ==
    ~(input_file.isfile /\ input_file.readable) =>
        /\ pc \in {"check_input_file", "exit"}
        /\ pc = "exit" => exit_code = 20
        /\ root = <<>> /\ lines = <<>> /\ exc = ""
        /\ out_file = out_prior

\* C7 witness: the run has exited on a file that exists but cannot be read
C7_Witness == pc = "exit" /\ input_file.isfile /\ ~input_file.readable

\* C8: when the document is malformed read_xml fails with a parse error before any
\* record is extracted and before the destination is opened: the output path is left
\* as it was.
C8_MalformedAborts ==
    (input_file.isfile /\ input_file.readable /\ ~input_file.wellformed) =>
        /\ pc \in {"check_input_file", "read_xml", "raised"}
        /\ pc = "raised" => exc = "ParseError"
        /\ root = <<>> /\ lines = <<>>
        /\ out_file = out_prior

\* C8 witness: the run has been aborted by the parse error with an earlier output in place
C8_Witness == pc = "raised" /\ exc = "ParseError" /\ out_prior.exists

\* C9: each single-valued column, and each component of Volume, is the text of the first
\* element matching its path when that element exists and has non-empty text, and the
\* empty string otherwise, whatever the other paths hold.
C9_FirstNodeText ==
    \A i \in 1..Len(lines) :
        /\ {"PubDate", "Journal", "Title", "Label", "WorkType", "Volume"} \subseteq DOMAIN lines[i]
        /\ lines[i].PubDate = FirstText(root[i][P_YEAR])
        /\ lines[i].Journal = FirstText(root[i][P_JOURNAL])
        /\ lines[i].Title = FirstText(root[i][P_TITLE])
        /\ lines[i].Label = FirstText(root[i][P_LABEL])
        /\ lines[i].WorkType = FirstText(root[i][P_WORKTYPE])
        /\ lines[i].Volume \in
              {<<>>, FirstText(root[i][P_VOLUME]) \o <<":">> \o FirstText(root[i][P_NUMBER])
                        \o <<":">> \o FirstText(root[i][P_PAGES])}

\* C9 witness: a row built from a record where the first element matching a path has no
\* text and the second has, and another path's first element has text
C9_Witness ==
    \E i \in 1..Len(lines) : \E p \in SinglePaths, q \in SinglePaths :
        /\ Len(root[i][p]) >= 2 /\ ~root[i][p][1].hasText /\ root[i][p][2].hasText
        /\ Len(root[i][q]) >= 1 /\ root[i][q][1].hasText

\* C10: reading the written file with csv.reader gives back the header and then the
\* rows that were extracted, same values, same column order, same row order.
C10_RoundTrip ==
    pc = "done" =>
        CsvReader(out_file.content) = <<HeaderCells>> \o [i \in 1..Len(lines) |-> ValuesOf(lines[i])]

\* C10 witness: a written table with a value holding a quote character and one holding
\* a line break
C10_Witness ==
    /\ pc = "done"
    /\ \E i \in 1..Len(lines) :
          /\ \E k \in 1..Len(lines[i].Authors) : lines[i].Authors[k] = QUOTECHAR
          /\ \E k \in 1..Len(lines[i].WorkType) : lines[i].WorkType[k] \in {CR, LF}

====
